---- MODULE Spec2Model ----
(***************************************************************************)
(* Model of ShutdownService (src/src/core/lifecycle/shutdown.rs): the      *)
(* registry of services and actors, the fan-out of shutdown notifications, *)
(* the wait bounded by TIMEOUT, the stop of the actor system, the release  *)
(* of the coordinator's strong references and the leak scan.               *)
(*                                                                         *)
(* The components (Service implementations, actors, other holders of a     *)
(* service's Arc, the timer) are the environment: each of their choices is *)
(* a nondeterministic step.                                                *)
(***************************************************************************)
EXTENDS Integers, Sequences, FiniteSets, Bags, TLC

\* ---- bounds ----
\* registrations made in one run by the callers of register_service and
\* register_actor
MaxReg == 2

\* length of the slice given to register_services
MaxBatch == 2

VARIABLES
    services,              \* State.services: Vec<Arc<dyn Service>>
    actors,                \* State.actors: Vec<ActorInfo>
    lock,                  \* ShutdownService.state mutex: "free" or its holder
    ext,                   \* per service: 1 while an owner outside the
                           \* coordinator holds an Arc to it
    selfRef,               \* per service: it stores an Arc to itself (a cycle)
    hookHeld,              \* per service: clones given to the shutdown hook
                           \* and still alive
    pc,                    \* position of graceful_shutdown
    idx,                   \* position of the running fan-out loop
    finish_receivers,      \* (label, receiver) pairs, then the wrapped futures
    timer,                 \* the sleep(TIMEOUT) future of the select
    stops,                 \* number of System::current().stop() calls
    weak_services,         \* Vec<Weak<dyn Service>> of the drain
    not_dropped_services,  \* the value graceful_shutdown returns
    log,                   \* bag of the outcome records the call has logged
    notified,              \* try_send calls and hook invocations of the call
    batch,                 \* the slice of a register_services call
    batch_idx              \* number of its elements registered so far

vars == <<services, actors, lock, ext, selfRef, hookHeld, pc, idx,
          finish_receivers, timer, stops, weak_services, not_dropped_services,
          log, notified, batch, batch_idx>>

regVars == <<services, actors, lock>>
refVars == <<ext, selfRef, hookHeld>>
callVars == <<pc, idx, finish_receivers, timer, stops, weak_services,
              not_dropped_services, log, notified>>
batchVars == <<batch, batch_idx>>

\* ---- helpers ----
Range(seq) == {seq[i] : i \in 1..Len(seq)}

Occ(seq, x) == Cardinality({i \in 1..Len(seq) : seq[i] = x})

\* Service::name(): distinct services carry distinct names
Name(s) == <<"Service", s>>

ActorName(a) == <<"Actor", a>>

\* format!("actor {}", actor_info.name)
ActorLabel(a) == <<"actor", ActorName(a)>>

\* format!("service {}", service.name())
ServiceLabel(s) == <<"service", Name(s)>>

\* Arc::strong_count of service s: the registry's references, the other
\* owners', the clones the hook kept, and the reference the service holds
\* to itself
StrongCount(s) ==
    Occ(services, s) + ext[s] + hookHeld[s] + (IF selfRef[s] THEN 1 ELSE 0)

\* the strong references the coordinator does not own
OtherHolders(s) == ext[s] + hookHeld[s] + (IF selfRef[s] THEN 1 ELSE 0)

\* number of times record e was logged
Logged(e) == CopiesIn(e, log)

\* the registrations made so far: those in the registry and those drained
Registered == Len(services) + Len(weak_services) + Len(actors)

\* the slice of a register_services call that has not returned holds a
\* reference to the caller's Arc of s
Borrowed(s) == batch_idx < Len(batch) /\ s \in Range(batch)

Init ==
    /\ services = <<>>
    /\ actors = <<>>
    /\ lock = "free"
    /\ ext = <<>>
    /\ selfRef = <<>>
    /\ hookHeld = <<>>
    /\ pc = "idle"
    /\ idx = 0
    /\ finish_receivers = <<>>
    /\ timer = "off"
    /\ stops = 0
    /\ weak_services = <<>>
    /\ not_dropped_services = <<>>
    /\ log = EmptyBag
    /\ notified = <<>>
    /\ batch = <<>>
    /\ batch_idx = 0

\* ---- registration ----

\* register_service(service) with a service the registry has not seen: it is
\* service number Len(ext) + 1; it holds an Arc to itself or not (cycle), and
\* the caller gives away its only Arc (keep = FALSE) or a clone (keep = TRUE)
register_new_service(keep, cycle) ==
    /\ lock = "free"
    /\ Registered < MaxReg
    /\ services' = Append(services, Len(ext) + 1)
    /\ ext' = Append(ext, IF keep THEN 1 ELSE 0)
    /\ selfRef' = Append(selfRef, cycle)
    /\ hookHeld' = Append(hookHeld, 0)
    /\ UNCHANGED <<actors, lock>>
    /\ UNCHANGED callVars
    /\ UNCHANGED batchVars

\* register_service(service) with a service registered before: an outside
\* owner hands over its Arc (keep = FALSE) or a clone of it (keep = TRUE);
\* an Arc that a running register_services borrows cannot be handed over
register_service(s, keep) ==
    /\ lock = "free"
    /\ Registered < MaxReg
    /\ s \in DOMAIN ext
    /\ ext[s] > 0
    /\ keep \/ ~Borrowed(s)
    /\ services' = Append(services, s)
    /\ ext' = [ext EXCEPT ![s] = IF keep THEN @ ELSE @ - 1]
    /\ UNCHANGED <<actors, lock, selfRef, hookHeld>>
    /\ UNCHANGED callVars
    /\ UNCHANGED batchVars

\* register_actor(name, actor): the k-th call registers actor k
register_actor ==
    /\ lock = "free"
    /\ Registered < MaxReg
    /\ actors' = Append(actors, Len(actors) + 1)
    /\ UNCHANGED <<services, lock>>
    /\ UNCHANGED refVars
    /\ UNCHANGED callVars
    /\ UNCHANGED batchVars

\* the slices a caller can pass to register_services: services registered
\* before that an outside owner holds, and services the registry has not
\* seen, numbered from Len(ext) + 1 in the order of their first occurrence
Slices ==
    {b \in UNION {[1..n -> 1..(Len(ext) + n)] : n \in 1..MaxBatch} :
        \A i \in 1..Len(b) :
            IF b[i] <= Len(ext) THEN ext[b[i]] > 0
            ELSE b[i] <= Len(ext) + 1
                    + Cardinality({b[j] : j \in 1..(i - 1)} \ DOMAIN ext)}

\* the services of slice b that the registry has not seen
NewIn(b) == Cardinality(Range(b) \ DOMAIN ext)

\* register_services(services) is entered with slice b: the caller holds an
\* Arc to each element; the new services hold an Arc to themselves or not
\* (cycle)
register_services(b, cycle) ==
    /\ batch = <<>>
    /\ b \in Slices
    /\ batch' = b
    /\ batch_idx' = 0
    /\ ext' = ext \o [i \in 1..NewIn(b) |-> 1]
    /\ selfRef' = selfRef \o [i \in 1..NewIn(b) |-> cycle]
    /\ hookHeld' = hookHeld \o [i \in 1..NewIn(b) |-> 0]
    /\ UNCHANGED regVars
    /\ UNCHANGED callVars

\* mutant of register_services_step: the slice is walked from its end
register_services_step_Reversed ==
    /\ batch_idx < Len(batch)
    /\ lock = "free"
    /\ services' = Append(services, batch[Len(batch) - batch_idx])
    /\ batch_idx' = batch_idx + 1
    /\ UNCHANGED <<actors, lock, batch>>
    /\ UNCHANGED refVars
    /\ UNCHANGED callVars

\* one iteration of the loop of register_services:
\* self.register_service(service.clone()) takes the lock and pushes the clone
register_services_step ==
    /\ batch_idx < Len(batch)
    /\ lock = "free"
    /\ services' = Append(services, batch[batch_idx + 1])
    /\ batch_idx' = batch_idx + 1
    /\ UNCHANGED <<actors, lock, batch>>
    /\ UNCHANGED refVars
    /\ UNCHANGED callVars

\* ---- the other owners of a service ----

\* the last outside owner drops its Arc (not while a running
\* register_services borrows it)
ExtDrop(s) ==
    /\ s \in DOMAIN ext
    /\ ext[s] > 0
    /\ ~Borrowed(s)
    /\ ext' = [ext EXCEPT ![s] = @ - 1]
    /\ UNCHANGED <<selfRef, hookHeld>>
    /\ UNCHANGED regVars
    /\ UNCHANGED callVars
    /\ UNCHANGED batchVars

\* the work the shutdown hook started drops the Arc the hook was given
HookRelease(s) ==
    /\ s \in DOMAIN hookHeld
    /\ hookHeld[s] > 0
    /\ hookHeld' = [hookHeld EXCEPT ![s] = @ - 1]
    /\ UNCHANGED <<ext, selfRef>>
    /\ UNCHANGED regVars
    /\ UNCHANGED callVars
    /\ UNCHANGED batchVars

\* ---- graceful_shutdown: fan-out (lines 55-95) ----

\* a oneshot channel as the coordinator sees it: the label of the pair, what
\* the producer half did, and whether the wrapped future has resolved
Receiver(label, sender) ==
    [label |-> label, sender |-> sender, resolved |-> FALSE]

\* entry of graceful_shutdown up to self.state.lock()
Call ==
    /\ pc = "idle"
    /\ lock = "free"
    /\ lock' = "shutdown"
    /\ pc' = "actors"
    /\ idx' = 1
    /\ finish_receivers' = <<>>
    /\ weak_services' = <<>>
    /\ not_dropped_services' = <<>>
    /\ notified' = <<>>
    /\ timer' = "off"
    /\ log' = EmptyBag
    /\ UNCHANGED <<services, actors, stops>>
    /\ UNCHANGED refVars
    /\ UNCHANGED batchVars

\* mutant of NotifyActor: a failed try_send skips the rest of the iteration
NotifyActor_SkipsReceiver(delivered) ==
    /\ pc = "actors"
    /\ idx <= Len(actors)
    /\ finish_receivers' =
            IF delivered
            THEN Append(finish_receivers,
                        Receiver(ActorLabel(actors[idx]), "pending"))
            ELSE finish_receivers
    /\ notified' = Append(notified, <<"actor", actors[idx], delivered>>)
    /\ idx' = idx + 1
    /\ UNCHANGED <<pc, timer, stops, weak_services, not_dropped_services,
                   log>>
    /\ UNCHANGED regVars
    /\ UNCHANGED refVars
    /\ UNCHANGED batchVars

\* one iteration of `for actor_info in &state_guard.actors`: try_send either
\* delivers the message (the actor now owns the producer half) or returns it
\* in the error, which `let _ =` drops together with the producer half
NotifyActor(delivered) ==
    /\ pc = "actors"
    /\ idx <= Len(actors)
    /\ finish_receivers' = Append(finish_receivers,
            Receiver(ActorLabel(actors[idx]),
                     IF delivered THEN "pending" ELSE "dropped"))
    /\ notified' = Append(notified, <<"actor", actors[idx], delivered>>)
    /\ idx' = idx + 1
    /\ UNCHANGED <<pc, timer, stops, weak_services, not_dropped_services,
                   log>>
    /\ UNCHANGED regVars
    /\ UNCHANGED refVars
    /\ UNCHANGED batchVars

\* mutant of ActorsFinished: the services loop starts at the second entry
ActorsFinished_SkipsFirst ==
    /\ pc = "actors"
    /\ idx > Len(actors)
    /\ pc' = "services"
    /\ idx' = 2
    /\ UNCHANGED <<finish_receivers, timer, stops, weak_services,
                   not_dropped_services, log, notified>>
    /\ UNCHANGED regVars
    /\ UNCHANGED refVars
    /\ UNCHANGED batchVars

\* the actors loop ends, the services loop starts
ActorsFinished ==
    /\ pc = "actors"
    /\ idx > Len(actors)
    /\ pc' = "services"
    /\ idx' = 1
    /\ UNCHANGED <<finish_receivers, timer, stops, weak_services,
                   not_dropped_services, log, notified>>
    /\ UNCHANGED regVars
    /\ UNCHANGED refVars
    /\ UNCHANGED batchVars

\* mutant of NotifyService: the hook is given the registry's own reference,
\* which is gone when the hook drops it
NotifyService_MovesHandle(ret, keep) ==
    /\ pc = "services"
    /\ idx <= Len(services)
    /\ LET s == services[idx] IN
        /\ finish_receivers' =
              IF ret = "signal"
              THEN Append(finish_receivers, Receiver(ServiceLabel(s), "pending"))
              ELSE finish_receivers
        /\ hookHeld' = [hookHeld EXCEPT ![s] = IF keep THEN @ ELSE @ - 1]
        /\ notified' = Append(notified, <<"service", s, ret>>)
    /\ idx' = idx + 1
    /\ UNCHANGED <<pc, timer, stops, weak_services, not_dropped_services,
                   log>>
    /\ UNCHANGED regVars
    /\ UNCHANGED <<ext, selfRef>>
    /\ UNCHANGED batchVars

\* one iteration of `for service in &state_guard.services`: the hook is
\* called on a clone; it returns a receiver or None (ret), and the clone it
\* consumed is dropped on return or kept alive by what the hook started (keep)
NotifyService(ret, keep) ==
    /\ pc = "services"
    /\ idx <= Len(services)
    /\ LET s == services[idx] IN
        /\ finish_receivers' =
              IF ret = "signal"
              THEN Append(finish_receivers, Receiver(ServiceLabel(s), "pending"))
              ELSE finish_receivers
        /\ hookHeld' = [hookHeld EXCEPT ![s] = IF keep THEN @ + 1 ELSE @]
        /\ notified' = Append(notified, <<"service", s, ret>>)
    /\ idx' = idx + 1
    /\ UNCHANGED <<pc, timer, stops, weak_services, not_dropped_services,
                   log>>
    /\ UNCHANGED regVars
    /\ UNCHANGED <<ext, selfRef>>
    /\ UNCHANGED batchVars

\* mutant of ServicesFinished: state_guard lives on into the wait
ServicesFinished_KeepsLock ==
    /\ pc = "services"
    /\ idx > Len(services)
    /\ pc' = "wait"
    /\ idx' = 0
    /\ UNCHANGED <<finish_receivers, timer, stops, weak_services,
                   not_dropped_services, log, notified>>
    /\ UNCHANGED regVars
    /\ UNCHANGED refVars
    /\ UNCHANGED batchVars

\* the services loop ends and state_guard goes out of scope
ServicesFinished ==
    /\ pc = "services"
    /\ idx > Len(services)
    /\ lock' = "free"
    /\ pc' = "wait"
    /\ idx' = 0
    /\ UNCHANGED <<finish_receivers, timer, stops, weak_services,
                   not_dropped_services, log, notified>>
    /\ UNCHANGED <<services, actors>>
    /\ UNCHANGED refVars
    /\ UNCHANGED batchVars

\* ---- the components' side of the completion signals ----

\* the holder of a producer half sends Ok(()) ("ok"), sends Err(..) ("err")
\* or drops the half without sending ("dropped")
Resolve(i, outcome) ==
    /\ i \in 1..Len(finish_receivers)
    /\ finish_receivers[i].sender = "pending"
    /\ finish_receivers' = [finish_receivers EXCEPT ![i].sender = outcome]
    /\ UNCHANGED <<pc, idx, timer, stops, weak_services, not_dropped_services,
                   log, notified>>
    /\ UNCHANGED regVars
    /\ UNCHANGED refVars
    /\ UNCHANGED batchVars

\* ---- graceful_shutdown: the bounded wait (lines 98-134) ----

\* mutant of OutcomeLog: a received Err(..) is logged as a success
OutcomeLog_ErrAsSuccess(r) ==
    IF r.sender = "dropped" THEN <<"error", "cant_receive", r.label>>
    ELSE <<"trace", "completed_successfully", r.label>>

\* the closure of receiver.map (lines 102-125): the record one resolved
\* receiver logs
OutcomeLog(r) ==
    IF r.sender = "dropped" THEN <<"error", "cant_receive", r.label>>
    ELSE IF r.sender = "err" THEN <<"error", "finished_with_error", r.label>>
    ELSE <<"trace", "completed_successfully", r.label>>

\* a wrapped future that a poll would resolve now
Ready(r) == r.sender # "pending" /\ ~r.resolved

\* the records one poll of join_all logs: those of the ready futures from
\* position i on, in the order of the vector
RECURSIVE PollLogs(_, _)
PollLogs(recv, i) ==
    IF i > Len(recv) THEN EmptyBag
    ELSE (IF Ready(recv[i]) THEN SetToBag({OutcomeLog(recv[i])}) ELSE EmptyBag)
         (+) PollLogs(recv, i + 1)

\* the futures after one poll of join_all
Polled(recv) ==
    [i \in 1..Len(recv) |->
        IF Ready(recv[i]) THEN [recv[i] EXCEPT !.resolved = TRUE] ELSE recv[i]]

\* mutant of AllResolved: the aggregate also completes at the first future
\* that resolved with a failure
AllResolved_OrOneFailed(recv) ==
    \/ \A i \in 1..Len(recv) : recv[i].resolved
    \/ \E i \in 1..Len(recv) :
            recv[i].resolved /\ recv[i].sender \in {"err", "dropped"}

\* join_all is complete: every future has resolved
AllResolved(recv) == \A i \in 1..Len(recv) : recv[i].resolved

\* line 132
AllFinishedLog == <<"trace", "all_finished">>

\* line 133
TimeoutLog == <<"error", "timeout">>

\* mutant of SleepReady: the aggregate is awaited without a deadline
SleepReady_Never == FALSE

\* the sleep(TIMEOUT) branch of the select is ready
SleepReady == timer = "elapsed"

\* the select ends: the futures (with the receivers in them) and the sleep
\* are dropped
EndWait(records) ==
    /\ log' = log (+) records
    /\ finish_receivers' = <<>>
    /\ timer' = "off"
    /\ pc' = "stop"

\* mutant of WaitOutcome: the deadline is looked at before the aggregate
WaitOutcome_DeadlineFirst(after) ==
    IF SleepReady THEN "timeout"
    ELSE IF AllResolved(after) THEN "finished"
    ELSE "pending"

\* what a poll that starts with the join_all branch decides, the futures
\* being `after` once join_all was polled: the branch wins if join_all is
\* complete; otherwise the sleep branch is polled and wins if it is ready
WaitOutcome(after) ==
    IF AllResolved(after) THEN "finished"
    ELSE IF SleepReady THEN "timeout"
    ELSE "pending"

\* one poll of the select that polls the join_all branch first: the ready
\* futures resolve and log, then the select ends or stays pending; the first
\* poll creates the sleep
PollJoinFirst ==
    /\ pc = "wait"
    /\ \/ timer = "off"
       \/ SleepReady
       \/ \E i \in 1..Len(finish_receivers) : Ready(finish_receivers[i])
    /\ LET after == Polled(finish_receivers)
           logs == PollLogs(finish_receivers, 1)
           outcome == WaitOutcome(after)
       IN  IF outcome = "finished"
           THEN EndWait(logs (+) SetToBag({AllFinishedLog}))
           ELSE IF outcome = "timeout"
           THEN EndWait(logs (+) SetToBag({TimeoutLog}))
           ELSE /\ finish_receivers' = after
                /\ log' = log (+) logs
                /\ timer' = "armed"
                /\ UNCHANGED pc
    /\ UNCHANGED <<idx, stops, weak_services, not_dropped_services, notified>>
    /\ UNCHANGED regVars
    /\ UNCHANGED refVars
    /\ UNCHANGED batchVars

\* mutant of PollSleepFirst: the deadline makes the call return at once
PollSleepFirst_Returns ==
    /\ pc = "wait"
    /\ SleepReady
    /\ log' = log (+) SetToBag({TimeoutLog})
    /\ finish_receivers' = <<>>
    /\ timer' = "off"
    /\ pc' = "done"
    /\ UNCHANGED <<idx, stops, weak_services, not_dropped_services, notified>>
    /\ UNCHANGED regVars
    /\ UNCHANGED refVars
    /\ UNCHANGED batchVars

\* mutant of PollSleepFirst: the deadline ends the wait without a record
PollSleepFirst_Silent ==
    /\ pc = "wait"
    /\ SleepReady
    /\ EndWait(EmptyBag)
    /\ UNCHANGED <<idx, stops, weak_services, not_dropped_services, notified>>
    /\ UNCHANGED regVars
    /\ UNCHANGED refVars
    /\ UNCHANGED batchVars

\* one poll of the select that polls the sleep branch first, the deadline
\* having passed: the branch wins and join_all is not polled
PollSleepFirst ==
    /\ pc = "wait"
    /\ SleepReady
    /\ EndWait(SetToBag({TimeoutLog}))
    /\ UNCHANGED <<idx, stops, weak_services, not_dropped_services, notified>>
    /\ UNCHANGED regVars
    /\ UNCHANGED refVars
    /\ UNCHANGED batchVars

\* TIMEOUT passes after the first poll has created the sleep
TimerElapse ==
    /\ pc = "wait"
    /\ timer = "armed"
    /\ timer' = "elapsed"
    /\ UNCHANGED <<pc, idx, finish_receivers, stops, weak_services,
                   not_dropped_services, log, notified>>
    /\ UNCHANGED regVars
    /\ UNCHANGED refVars
    /\ UNCHANGED batchVars

\* ---- graceful_shutdown: stop, release, leak scan (lines 136-179) ----

\* mutant of StopSystem: the call of stop() is left out
StopSystem_Skipped ==
    /\ pc = "stop"
    /\ pc' = "drain"
    /\ UNCHANGED <<idx, finish_receivers, timer, stops, weak_services,
                   not_dropped_services, log, notified>>
    /\ UNCHANGED regVars
    /\ UNCHANGED refVars
    /\ UNCHANGED batchVars

\* System::current().stop()
StopSystem ==
    /\ pc = "stop"
    /\ stops' = stops + 1
    /\ pc' = "drain"
    /\ UNCHANGED <<idx, finish_receivers, timer, weak_services,
                   not_dropped_services, log, notified>>
    /\ UNCHANGED regVars
    /\ UNCHANGED refVars
    /\ UNCHANGED batchVars

\* mutant of Drain: only the services the fan-out notified are drained
Drain_OnlyNotified ==
    /\ pc = "drain"
    /\ lock = "free"
    /\ LET k == Cardinality({i \in 1..Len(notified) :
                                notified[i][1] = "service"})
       IN  /\ weak_services' = SubSeq(services, 1, k)
           /\ services' = SubSeq(services, k + 1, Len(services))
    /\ pc' = "scan"
    /\ UNCHANGED <<actors, lock>>
    /\ UNCHANGED <<idx, finish_receivers, timer, stops, not_dropped_services,
                   log, notified>>
    /\ UNCHANGED refVars
    /\ UNCHANGED batchVars

\* mutant of Drain: the registry is read, not drained
Drain_KeepsServices ==
    /\ pc = "drain"
    /\ lock = "free"
    /\ weak_services' = services
    /\ pc' = "scan"
    /\ UNCHANGED <<services, actors, lock>>
    /\ UNCHANGED <<idx, finish_receivers, timer, stops, not_dropped_services,
                   log, notified>>
    /\ UNCHANGED refVars
    /\ UNCHANGED batchVars

\* mutant of Drain: the whole State is taken, the actors with the services
Drain_TakesActors ==
    /\ pc = "drain"
    /\ lock = "free"
    /\ weak_services' = services
    /\ services' = <<>>
    /\ actors' = <<>>
    /\ pc' = "scan"
    /\ UNCHANGED lock
    /\ UNCHANGED <<idx, finish_receivers, timer, stops, not_dropped_services,
                   log, notified>>
    /\ UNCHANGED refVars
    /\ UNCHANGED batchVars

\* lines 143-151: under the lock every Arc of the registry is downgraded and
\* dropped
Drain ==
    /\ pc = "drain"
    /\ lock = "free"
    /\ weak_services' = services
    /\ services' = <<>>
    /\ pc' = "scan"
    /\ UNCHANGED <<actors, lock>>
    /\ UNCHANGED <<idx, finish_receivers, timer, stops, not_dropped_services,
                   log, notified>>
    /\ UNCHANGED refVars
    /\ UNCHANGED batchVars

\* mutant of IsLeaked: the test lets a zero count pass
IsLeaked_AnyCount(s) == StrongCount(s) >= 0

\* mutant of IsLeaked: the test is off by one
IsLeaked_OffByOne(s) == StrongCount(s) > 1

\* mutant of IsLeaked: a service that reported success is taken as released
IsLeaked_UnlessReportedOk(s) ==
    /\ StrongCount(s) > 0
    /\ Logged(<<"trace", "completed_successfully", ServiceLabel(s)>>) = 0

\* line 158: weak_service.strong_count() > 0
IsLeaked(s) == StrongCount(s) > 0

\* mutant of NotDropped: the names are collected in reverse
RECURSIVE NotDropped_Reversed(_, _)
NotDropped_Reversed(weak, i) ==
    IF i > Len(weak) THEN <<>>
    ELSE NotDropped_Reversed(weak, i + 1)
         \o (IF IsLeaked(weak[i]) THEN <<Name(weak[i])>> ELSE <<>>)

\* filter_map of lines 155-166 from position i on: a handle that passes the
\* test upgrades and yields the name
RECURSIVE NotDropped(_, _)
NotDropped(weak, i) ==
    IF i > Len(weak) THEN <<>>
    ELSE (IF IsLeaked(weak[i]) THEN <<Name(weak[i])>> ELSE <<>>)
         \o NotDropped(weak, i + 1)

\* lines 168-176
ReportLog(names) ==
    IF names = <<>> THEN <<"info", "all_dropped">>
    ELSE <<"error", "not_dropped", names>>

\* lines 155-178: the scan, the report and the return
Scan ==
    /\ pc = "scan"
    /\ LET names == NotDropped(weak_services, 1) IN
        /\ not_dropped_services' = names
        /\ log' = log (+) SetToBag({ReportLog(names)})
    /\ pc' = "done"
    /\ UNCHANGED <<idx, finish_receivers, timer, stops, weak_services,
                   notified>>
    /\ UNCHANGED regVars
    /\ UNCHANGED refVars
    /\ UNCHANGED batchVars

\* ---- specification ----

Next ==
    \/ \E k \in BOOLEAN, c \in BOOLEAN : register_new_service(k, c)
    \/ \E s \in 1..MaxReg, k \in BOOLEAN : register_service(s, k)
    \/ register_actor
    \/ \E s \in 1..MaxReg : ExtDrop(s)
    \/ \E s \in 1..MaxReg : HookRelease(s)
    \/ Call
    \/ \E d \in BOOLEAN : NotifyActor(d)
    \/ ActorsFinished
    \/ \E r \in {"none", "signal"}, k \in BOOLEAN : NotifyService(r, k)
    \/ ServicesFinished
    \/ \E i \in 1..MaxReg, o \in {"ok", "err", "dropped"} :
            Resolve(i, o)
    \/ PollJoinFirst
    \/ PollSleepFirst
    \/ TimerElapse
    \/ StopSystem
    \/ Drain
    \/ Scan

Spec == Init /\ [][Next]_vars

\* the steps of graceful_shutdown itself
CallStep ==
    \/ \E d \in BOOLEAN : NotifyActor(d)
    \/ ActorsFinished
    \/ \E r \in {"none", "signal"}, k \in BOOLEAN : NotifyService(r, k)
    \/ ServicesFinished
    \/ PollJoinFirst
    \/ PollSleepFirst
    \/ StopSystem
    \/ Drain
    \/ Scan

\* The runtime polls the task of graceful_shutdown whenever it can make a
\* step, and the time of the sleep passes; no component is obliged to act.
FairSpec == Spec /\ WF_vars(CallStep) /\ WF_vars(TimerElapse)

\* ---- vocabulary of the properties ----

\* the step of lines 155-178 is being taken
ScanStep == pc = "scan" /\ pc' = "done"

\* the step that ends the select of lines 131-134 is being taken
WaitEndStep == pc = "wait" /\ pc' = "stop"

\* the coordinator holds no Arc to s
Released(s) == Occ(services, s) = 0

\* the hook of s was invoked by the call
HookCalls(s) ==
    {i \in 1..Len(notified) : notified[i][1] = "service" /\ notified[i][2] = s}

\* every invocation of the hook of s returned None, and there was one
ReturnedNoHandle(s) ==
    /\ HookCalls(s) # {}
    /\ \A i \in HookCalls(s) : notified[i][3] = "none"

\* C1: when every drained service had its hook return no wait handle and has
\* no strong-reference holder left (no outside owner, no clone kept by the
\* hook, no cycle, no new registration), the list the scan returns is empty.
C1_NoHolderNoLeak ==
    [][(ScanStep /\ \A s \in Range(weak_services) :
            ReturnedNoHandle(s) /\ OtherHolders(s) = 0 /\ Released(s))
        => not_dropped_services' = <<>>]_vars

\* C1 witness: a call has returned the empty list for a non-empty set of
\* services whose hooks returned None and that nobody else holds.
C1_Witness ==
    /\ pc = "done"
    /\ weak_services # <<>>
    /\ \A s \in Range(weak_services) :
            ReturnedNoHandle(s) /\ OtherHolders(s) = 0 /\ Released(s)
    /\ not_dropped_services = <<>>

\* C2: when one drained service holds an Arc to itself and no other drained
\* service has a holder left, the returned list contains that service's name
\* and no other name; registered once, it is listed once.
C2_CycleIsTheOnlyLeak ==
    [][\A s \in Range(weak_services) :
        (/\ ScanStep
         /\ selfRef[s]
         /\ \A t \in Range(weak_services) \ {s} :
                OtherHolders(t) = 0 /\ Released(t))
        => /\ Range(not_dropped_services') = {Name(s)}
           /\ Occ(weak_services, s) = 1 => not_dropped_services' = <<Name(s)>>]_vars

\* C2 witness: a call has returned exactly the name of a self-referencing
\* service, registered next to a service that was fully released.
C2_Witness ==
    /\ pc = "done"
    /\ Len(weak_services) = 2
    /\ \E s \in Range(weak_services) :
        /\ selfRef[s]
        /\ \E t \in Range(weak_services) \ {s} :
                OtherHolders(t) = 0 /\ Released(t)
        /\ not_dropped_services = <<Name(s)>>

\* the notification created a oneshot channel the wait covers
HasReceiver(n) == n[1] = "actor" \/ n[3] = "signal"

\* the label its receiver was recorded under
LabelOf(n) == IF n[1] = "actor" THEN ActorLabel(n[2]) ELSE ServiceLabel(n[2])

\* receivers recorded under a label
NumReceivers(label) ==
    Cardinality({i \in 1..Len(notified) :
                    HasReceiver(notified[i]) /\ LabelOf(notified[i]) = label})

\* outcome records logged for a label
OutcomesLogged(label) ==
    Logged(<<"error", "cant_receive", label>>)
    + Logged(<<"error", "finished_with_error", label>>)
    + Logged(<<"trace", "completed_successfully", label>>)

\* the select has ended
WaitOver == pc \in {"stop", "drain", "scan", "done"}

\* C3: under the fair scheduling of the task and the passing of time, a call
\* that has started returns, whatever the components do with their producer
\* halves; a call whose signals never resolve leaves the wait by the deadline.
C3_AlwaysReturns == (pc = "actors") ~> (pc = "done")

\* C3 witness: a call has returned after the deadline branch ended the wait,
\* with a delivered actor request that was never answered.
C3_Witness ==
    /\ pc = "done"
    /\ Logged(TimeoutLog) = 1
    /\ \E i \in 1..Len(notified) :
        /\ notified[i][1] = "actor"
        /\ notified[i][3]
        /\ OutcomesLogged(LabelOf(notified[i])) = 0

\* every completion signal of the call resolved to success in the wait
AllReportedSuccess ==
    \A i \in 1..Len(notified) :
        HasReceiver(notified[i]) =>
            Logged(<<"trace", "completed_successfully", LabelOf(notified[i])>>)
                = NumReceivers(LabelOf(notified[i]))

C5_StopOnceAfterWait ==
    /\ pc \in {"idle", "actors", "services", "wait", "stop"} =>
            stops = 0 /\ weak_services = <<>>
    /\ pc = "drain" =>
            /\ stops = 1
            /\ weak_services = <<>>
            /\ Logged(TimeoutLog) + Logged(AllFinishedLog) = 1
    /\ pc \in {"scan", "done"} => stops = 1

\* C5 witness: the runtime was stopped once after the deadline branch ended
\* the wait, and the services were drained after that.
C5_Witness ==
    /\ pc = "scan"
    /\ stops = 1
    /\ Logged(TimeoutLog) = 1
    /\ weak_services # <<>>

\* C6: a service registered twice, of which exactly one strong reference is
\* left once the coordinator has released its own, is named at most once in
\* the returned list.
C6_ListedAtMostOnce ==
    [][\A s \in Range(weak_services) :
        (/\ ScanStep
         /\ Occ(weak_services, s) = 2
         /\ Released(s)
         /\ StrongCount(s) = 1)
        => Occ(not_dropped_services', Name(s)) <= 1]_vars

\* `names` are the names of some of the handles of `weak`, in the order of
\* `weak`: f maps the positions of `names` to strictly increasing positions
Embeds(names, weak) ==
    \E f \in [1..Len(names) -> 1..Len(weak)] :
        /\ \A k \in 1..Len(names) : names[k] = Name(weak[f[k]])
        /\ \A k, l \in 1..Len(names) : k < l => f[k] < f[l]

\* C7: the returned list names a drained service if and only if its strong
\* count is above zero once the coordinator has dropped its references, and
\* the names come in the order in which the services were registered.
C7_LeakedIffCountAboveZero ==
    [][ScanStep =>
        /\ \A s \in Range(weak_services) :
              Name(s) \in Range(not_dropped_services') <=> StrongCount(s) > 0
        /\ Embeds(not_dropped_services', weak_services)]_vars

\* C7 witness: the call has drained two different services, both still
\* held, and has returned their names in registration order.
C7_Witness ==
    /\ pc = "done"
    /\ Len(weak_services) = 2
    /\ weak_services[1] # weak_services[2]
    /\ not_dropped_services = <<Name(weak_services[1]), Name(weak_services[2])>>

\* the deadline ended the wait while a receiver of service s was outstanding
TimedOutOn(s) ==
    /\ Logged(TimeoutLog) = 1
    /\ OutcomesLogged(ServiceLabel(s)) < NumReceivers(ServiceLabel(s))

\* C8: the scan ignores what a service reported: one that reported success
\* and is still held elsewhere is listed, one that reported an error or was
\* timed out on and has no strong reference left is not.
C8_LeakIgnoresOutcome ==
    [][ScanStep => \A s \in Range(weak_services) :
        /\ (/\ Logged(<<"trace", "completed_successfully", ServiceLabel(s)>>) > 0
            /\ OtherHolders(s) > 0)
           => Name(s) \in Range(not_dropped_services')
        /\ (/\ \/ Logged(<<"error", "finished_with_error", ServiceLabel(s)>>) > 0
               \/ TimedOutOn(s)
            /\ StrongCount(s) = 0)
           => Name(s) \notin Range(not_dropped_services')]_vars

\* C8 witness: the call has returned a list that names a service whose
\* success was logged and leaves out one whose error was logged.
C8_Witness ==
    /\ pc = "done"
    /\ \E s, u \in Range(weak_services) :
        /\ Logged(<<"trace", "completed_successfully", ServiceLabel(s)>>) > 0
        /\ Name(s) \in Range(not_dropped_services)
        /\ Logged(<<"error", "finished_with_error", ServiceLabel(u)>>) > 0
        /\ Name(u) \notin Range(not_dropped_services)

\* the order of the phases: fan-out to the actors, to the services, the
\* bounded wait, the runtime stop, the release, the scan with its report
PhaseOrder ==
    {<<"idle", "actors">>, <<"actors", "services">>, <<"services", "wait">>,
     <<"wait", "stop">>, <<"stop", "drain">>, <<"drain", "scan">>,
     <<"scan", "done">>}

\* C9: a call in progress can always take its next step, whatever was
\* delivered, dropped, reported or timed out; the phases follow each other in
\* the one order, none is skipped, and the call returns a list of names.
C9_NeverAbortsPartway ==
    /\ [](pc \in {"actors", "services", "stop", "drain", "scan"} =>
            ENABLED CallStep)
    /\ [](pc = "wait" => ENABLED (CallStep \/ TimerElapse))
    /\ [](pc = "done" =>
            not_dropped_services \in Seq({Name(s) : s \in DOMAIN ext}))
    /\ [][pc' # pc => <<pc, pc'>> \in PhaseOrder]_vars

\* C9 witness: a call has returned after an actor could not be reached, its
\* dropped producer was logged, and the deadline ended the wait.
C9_Witness ==
    /\ pc = "done"
    /\ Logged(TimeoutLog) = 1
    /\ \E i \in 1..Len(notified) :
        /\ notified[i][1] = "actor"
        /\ ~notified[i][3]
        /\ Logged(<<"error", "cant_receive", LabelOf(notified[i])>>) > 0

\* C10: until the wait ends neither branch has logged; the step that ends it
\* takes exactly one branch: the deadline branch, with the sleep ready and a
\* future unresolved, logs the timeout error once; the aggregate branch, with
\* every future resolved, logs none; either way the receivers are dropped and
\* the call goes on to the stop and the scan.
C10_OneBranchPerCall ==
    /\ [](~WaitOver => Logged(TimeoutLog) = 0 /\ Logged(AllFinishedLog) = 0)
    /\ [](WaitOver =>
            /\ Logged(TimeoutLog) + Logged(AllFinishedLog) = 1
            /\ finish_receivers = <<>>)
    /\ [](pc = "done" => stops = 1)
    /\ [][WaitEndStep =>
            \/ /\ Logged(TimeoutLog)' = 1
               /\ Logged(AllFinishedLog)' = 0
               /\ SleepReady
               /\ ~AllResolved(finish_receivers)
            \/ /\ Logged(TimeoutLog)' = 0
               /\ Logged(AllFinishedLog)' = 1
               /\ AllResolved(Polled(finish_receivers))]_vars

\* C10 witness: a call has returned after the deadline branch was taken with
\* the receiver of a service outstanding.
C10_Witness ==
    /\ pc = "done"
    /\ Logged(TimeoutLog) = 1
    /\ Logged(AllFinishedLog) = 0
    /\ stops = 1
    /\ \E s \in Range(weak_services) : TimedOutOn(s)

\* the actors (kind "actor") or services (kind "service") the call has
\* notified so far, in the order of the notifications
NotifiedOf(kind) ==
    LET sel == SelectSeq(notified, LAMBDA n : n[1] = kind)
    IN  [i \in 1..Len(sel) |-> sel[i][2]]

\* seq starts with the elements of pre, in their order
IsPrefix(pre, seq) ==
    /\ Len(pre) <= Len(seq)
    /\ \A i \in 1..Len(pre) : pre[i] = seq[i]

\* C11: once the call has returned, the actors sequence still starts with the
\* actors it had when the call took the lock, in the same order; when every
\* registration was made before the call, the services sequence is empty and
\* the actors sequence is exactly what it was.
C11_ServicesDrainedActorsKept ==
    pc = "done" =>
        /\ IsPrefix(NotifiedOf("actor"), actors)
        /\ Registered = Len(notified) =>
                services = <<>> /\ actors = NotifiedOf("actor")

\* C11 witness: a call made with a service and an actor registered, and no
\* registration after it started, has returned.
C11_Witness ==
    /\ pc = "done"
    /\ Registered = Len(notified)
    /\ Len(actors) = 1
    /\ Len(weak_services) = 1
    /\ services = <<>>

\* a registration call would go through now
CanRegister ==
    /\ ENABLED register_actor
    /\ ENABLED (\E k \in BOOLEAN, c \in BOOLEAN : register_new_service(k, c))

\* C12: the call holds the lock exactly while it fans out (the drain takes
\* and releases it within its step); in the wait the lock is free and a
\* registration goes through; while the call fans out no registration does
\* and the registry does not change, so that the components notified so far
\* are the registry's first entries and, at the end of the pass, all of them.
C12_LockOnlyForFanOut ==
    /\ [](lock = "shutdown" <=> pc \in {"actors", "services"})
    /\ []((pc = "wait" /\ Registered < MaxReg) => CanRegister)
    /\ [](pc \in {"actors", "services"} =>
            /\ ~ENABLED register_actor
            /\ ~ENABLED (\E k \in BOOLEAN, c \in BOOLEAN :
                            register_new_service(k, c))
            /\ ~ENABLED (\E s \in 1..MaxReg, k \in BOOLEAN :
                            register_service(s, k))
            /\ IsPrefix(NotifiedOf("actor"), actors)
            /\ IsPrefix(NotifiedOf("service"), services))
    /\ [][(lock = "shutdown") =>
            services' = services /\ actors' = actors]_vars
    /\ [][(pc = "services" /\ pc' = "wait") =>
            /\ NotifiedOf("actor") = actors
            /\ NotifiedOf("service") = services]_vars

\* C12 witness: a registration went through while the call was waiting.
C12_Witness ==
    /\ pc = "wait"
    /\ lock = "free"
    /\ notified # <<>>
    /\ Registered > Len(notified)

\* the notification is a request that try_send could not deliver
Undelivered(n) == n[1] = "actor" /\ ~n[3]

\* the log holds an error record that names the label
ErrorLoggedFor(label) ==
    \E e \in DOMAIN log :
        Logged(e) > 0 /\ Len(e) = 3 /\ e[1] = "error" /\ e[3] = label

\* the first poll of the select has been made
FirstPollDone == (pc = "wait" /\ timer # "off") \/ WaitOver

\* C13 as stated: once try_send has failed for an actor, the log holds an
\* error record for that actor.
C13_FailedSendLogged ==
    \A i \in 1..Len(notified) :
        Undelivered(notified[i]) => ErrorLoggedFor(LabelOf(notified[i]))

\* what a failed try_send leaves in the log: nothing when it fails (no record
\* is written before the first poll of the wait); the producer half dropped
\* with the returned message makes the actor's receiver resolve at the first
\* poll, which logs one receive failure naming the actor
DroppedAtFirstPoll ==
    /\ ~FirstPollDone /\ pc # "idle" => log = EmptyBag
    /\ FirstPollDone =>
        \A i \in 1..Len(notified) :
            Undelivered(notified[i]) =>
                /\ Logged(<<"error", "cant_receive", LabelOf(notified[i])>>) = 1
                /\ OutcomesLogged(LabelOf(notified[i])) = 1

\* C14: a failed try_send leaves the fan-out running: the receiver is
\* recorded under the actor's label with its producer dropped, the pass goes
\* on to its end, where every actor and service of the registry has been
\* notified; the receiver resolves as dropped at the first poll of the wait,
\* and a wait that ends by the deadline is waiting for a component other than
\* the actors whose send failed.
C14_FailedSendDoesNotStopFanOut ==
    /\ []DroppedAtFirstPoll
    /\ [](pc \in {"actors", "services", "wait"} =>
            \A i \in 1..Len(NotifiedOf("actor")) :
                /\ i <= Len(finish_receivers)
                /\ finish_receivers[i].label = ActorLabel(notified[i][2])
                /\ Undelivered(notified[i]) =>
                        finish_receivers[i].sender = "dropped")
    /\ [](pc \in {"actors", "services"} =>
            ENABLED (\/ \E d \in BOOLEAN : NotifyActor(d)
                     \/ ActorsFinished
                     \/ \E r \in {"none", "signal"}, k \in BOOLEAN :
                            NotifyService(r, k)
                     \/ ServicesFinished))
    /\ [][(pc = "services" /\ pc' = "wait") =>
            Len(notified) = Len(actors) + Len(services)]_vars
    /\ []((WaitOver /\ Logged(TimeoutLog) = 1) =>
            \E i \in 1..Len(notified) :
                /\ HasReceiver(notified[i])
                /\ ~Undelivered(notified[i])
                /\ OutcomesLogged(LabelOf(notified[i]))
                        < NumReceivers(LabelOf(notified[i])))

\* C14 witness: the first actor's send failed, a component after it was
\* notified and answered, and the wait ended with the aggregate complete.
C14_Witness ==
    /\ WaitOver
    /\ Len(notified) = 2
    /\ Undelivered(notified[1])
    /\ Logged(AllFinishedLog) = 1
    /\ Logged(<<"error", "cant_receive", LabelOf(notified[1])>>) = 1
    /\ OutcomesLogged(LabelOf(notified[2])) = 1

\* C16: when the fan-out pass ends, the notifications made are one per entry
\* of the actors sequence, in its order, followed by one per entry of the
\* services sequence, in its order; every actor request carried its own new
\* channel, recorded at the actor's position; once the pass is over the call
\* notifies no one else.
C16_EachNotifiedOnceInOrder ==
    /\ [][(pc = "services" /\ pc' = "wait") =>
            /\ Len(notified) = Len(actors) + Len(services)
            /\ \A i \in 1..Len(actors) :
                /\ notified[i][1] = "actor"
                /\ notified[i][2] = actors[i]
                /\ finish_receivers[i].label = ActorLabel(actors[i])
            /\ \A j \in 1..Len(services) :
                /\ notified[Len(actors) + j][1] = "service"
                /\ notified[Len(actors) + j][2] = services[j]
            /\ Len(finish_receivers) =
                    Cardinality({i \in 1..Len(notified) :
                                    HasReceiver(notified[i])})]_vars
    /\ [][(pc \in {"actors", "services"}) =>
            \/ notified' = notified
            \/ /\ Len(notified') = Len(notified) + 1
               /\ IsPrefix(notified, notified')]_vars
    /\ [][(pc \in {"wait", "stop", "drain", "scan"}) =>
            notified' = notified]_vars

\* C16 witness: the pass has ended with an actor notified first and a
\* service after it.
C16_Witness ==
    /\ pc = "wait"
    /\ timer = "off"
    /\ Len(notified) = 2
    /\ notified[1][1] = "actor"
    /\ notified[2][1] = "service"
    /\ Len(actors) = 1
    /\ Len(services) = 1

\* the labels of the notifications that created a channel, in their order
AwaitedLabels ==
    LET sel == SelectSeq(notified, HasReceiver)
    IN  [i \in 1..Len(sel) |-> LabelOf(sel[i])]

\* C17: the futures the wait joins are those of the channels created in the
\* fan-out, one per actor and one per service whose hook returned a receiver,
\* and none for a hook that returned None; the aggregate branch ends the wait
\* only when every producer half has sent or been dropped, and then every
\* signal has its outcome in the log; while a signal is pending only the
\* deadline ends the wait, whatever the other signals resolved to.
C17_WaitCoversEverySignal ==
    /\ [](pc \in {"actors", "services", "wait"} =>
            /\ Len(finish_receivers) = Len(AwaitedLabels)
            /\ \A i \in 1..Len(finish_receivers) :
                    finish_receivers[i].label = AwaitedLabels[i])
    /\ [][WaitEndStep =>
            \/ \A i \in 1..Len(finish_receivers) :
                    finish_receivers[i].sender # "pending"
            \/ SleepReady /\ Logged(TimeoutLog)' = 1]_vars
    /\ []((WaitOver /\ Logged(AllFinishedLog) = 1) =>
            \A i \in 1..Len(AwaitedLabels) :
                OutcomesLogged(AwaitedLabels[i])
                    = NumReceivers(AwaitedLabels[i]))

\* C17 witness: the aggregate completed after one component failed and the
\* other succeeded.
C17_Witness ==
    /\ WaitOver
    /\ Logged(AllFinishedLog) = 1
    /\ Len(AwaitedLabels) = 2
    /\ Logged(<<"error", "finished_with_error", AwaitedLabels[1]>>) = 1
    /\ Logged(<<"trace", "completed_successfully", AwaitedLabels[2]>>) = 1

\* the futures of the vector with a label and a producer state that the next
\* poll of join_all resolves
ReadyWith(label, sender) ==
    {i \in 1..Len(finish_receivers) :
        /\ finish_receivers[i].label = label
        /\ finish_receivers[i].sender = sender
        /\ ~finish_receivers[i].resolved}

\* the futures of the vector with a label that have resolved
ResolvedWith(label) ==
    {i \in 1..Len(finish_receivers) :
        finish_receivers[i].label = label /\ finish_receivers[i].resolved}

\* the record kinds of lines 104-123 by what the producer half did
OutcomeKinds ==
    {<<"dropped", "error", "cant_receive">>,
     <<"err", "error", "finished_with_error">>,
     <<"ok", "trace", "completed_successfully">>}

\* the step is known to have polled join_all: the aggregate branch won, or
\* the first poll armed the sleep, or records were logged and the wait goes on
JoinAllPolled ==
    \/ Logged(AllFinishedLog)' = 1
    \/ timer = "off" /\ timer' = "armed"
    \/ pc' = "wait" /\ log' # log

\* C18: a signal's outcome is logged when the wait resolves its future and
\* not again: during the fan-out and the wait the outcome records of a label
\* are as many as its resolved futures, and after the wait at most as many as
\* its receivers; a step of the wait adds, per label, records only for the
\* futures it resolves, of the kind that matches what the producer did
\* (dropped: receive failure, Err: reported failure, Ok: trace); a pending
\* signal gets no record, at the deadline or otherwise.
C18_OutcomeLoggedOncePerSignal ==
    /\ [](pc \in {"actors", "services", "wait"} =>
            \A i \in 1..Len(AwaitedLabels) :
                OutcomesLogged(AwaitedLabels[i])
                    = Cardinality(ResolvedWith(AwaitedLabels[i])))
    /\ [](WaitOver =>
            \A i \in 1..Len(AwaitedLabels) :
                OutcomesLogged(AwaitedLabels[i])
                    <= NumReceivers(AwaitedLabels[i]))
    /\ [][pc = "wait" =>
            \A i \in 1..Len(AwaitedLabels) : \A k \in OutcomeKinds :
                LET label == AwaitedLabels[i]
                    rec == <<k[2], k[3], label>>
                    n == Cardinality(ReadyWith(label, k[1]))
                IN  /\ Logged(rec)' - Logged(rec) \in {0, n}
                    /\ JoinAllPolled => Logged(rec)' - Logged(rec) = n]_vars

\* C18 witness: the deadline ended the wait after one signal had resolved
\* with an error and been logged, and with another signal still pending,
\* which has no record.
C18_Witness ==
    /\ WaitOver
    /\ Logged(TimeoutLog) = 1
    /\ Len(AwaitedLabels) = 2
    /\ Logged(<<"error", "finished_with_error", AwaitedLabels[1]>>) = 1
    /\ OutcomesLogged(AwaitedLabels[1]) = 1
    /\ OutcomesLogged(AwaitedLabels[2]) = 0

\* C19: the registry's references are not touched by the hook: a service in
\* the registry has a strong count of at least its number of entries, hence
\* of at least one, whatever the hook did with its clone; entries stay where
\* they are until the drain, which comes after the runtime stop.
C19_RegistryKeepsServiceAlive ==
    /\ [](\A i \in 1..Len(services) :
            /\ StrongCount(services[i]) >= Occ(services, services[i])
            /\ StrongCount(services[i]) >= 1)
    /\ [][IsPrefix(services, services')
            \/ (pc = "drain" /\ stops >= 1 /\ services' = <<>>)]_vars

\* C19 witness: in the wait, a service whose hook dropped its clone and that
\* nobody else holds is alive by the registry's reference alone.
C19_Witness ==
    /\ pc = "wait"
    /\ \E s \in Range(services) :
        /\ HookCalls(s) # {}
        /\ OtherHolders(s) = 0
        /\ StrongCount(s) = 1

\* ---- a second call of graceful_shutdown on the same ShutdownService ----

\* entry of graceful_shutdown, the first call having returned: the locals of
\* the function are new, the registry is what the first call left
CallAgain ==
    /\ pc = "done"
    /\ stops = 1
    /\ lock = "free"
    /\ lock' = "shutdown"
    /\ pc' = "actors"
    /\ idx' = 1
    /\ finish_receivers' = <<>>
    /\ weak_services' = <<>>
    /\ not_dropped_services' = <<>>
    /\ notified' = <<>>
    /\ timer' = "off"
    /\ log' = EmptyBag
    /\ UNCHANGED <<services, actors, stops>>
    /\ UNCHANGED refVars
    /\ UNCHANGED batchVars

\* no call has drained the registry yet: the callers of the register
\* functions run up to the first call's drain and not after it
BeforeFirstDrain == stops = 0 \/ (stops = 1 /\ pc = "drain")

\* two calls in a row, with every registration made before the first call
\* drained the registry
AgainNext ==
    \/ /\ BeforeFirstDrain
       /\ \/ \E k \in BOOLEAN, c \in BOOLEAN : register_new_service(k, c)
          \/ \E s \in 1..MaxReg, k \in BOOLEAN : register_service(s, k)
          \/ register_actor
    \/ \E s \in 1..MaxReg : ExtDrop(s)
    \/ \E s \in 1..MaxReg : HookRelease(s)
    \/ Call
    \/ CallAgain
    \/ \E d \in BOOLEAN : NotifyActor(d)
    \/ ActorsFinished
    \/ \E r \in {"none", "signal"}, k \in BOOLEAN : NotifyService(r, k)
    \/ ServicesFinished
    \/ \E i \in 1..MaxReg, o \in {"ok", "err", "dropped"} :
            Resolve(i, o)
    \/ PollJoinFirst
    \/ PollSleepFirst
    \/ TimerElapse
    \/ StopSystem
    \/ Drain
    \/ Scan

AgainSpec == Init /\ [][AgainNext]_vars

\* the second call is running or has returned
InSecondCall ==
    \/ stops = 1 /\ pc \in {"actors", "services", "wait", "stop"}
    \/ stops = 2

\* C20: in a second call with no registration since the first call drained
\* the registry, no service hook is invoked, every actor of the registry is
\* sent a request with a channel of its own, stop() is called a second time,
\* no service is drained and the returned list is empty.
C20_SecondCallOnlyActors ==
    InSecondCall =>
        /\ NotifiedOf("service") = <<>>
        /\ IsPrefix(NotifiedOf("actor"), actors)
        /\ pc # "actors" => NotifiedOf("actor") = actors
        /\ pc \in {"services", "wait"} =>
                /\ Len(finish_receivers) = Len(actors)
                /\ \A i \in 1..Len(actors) :
                        finish_receivers[i].label = ActorLabel(actors[i])
        /\ pc \in {"drain", "scan", "done"} <=> stops = 2
        /\ weak_services = <<>>
        /\ not_dropped_services = <<>>

\* C20 witness: the second call has returned; the first had drained a service
\* that leaks, and the registry's actor was notified again.
C20_Witness ==
    /\ pc = "done"
    /\ stops = 2
    /\ Len(actors) = 1
    /\ NotifiedOf("actor") = actors
    /\ Len(ext) = 1
    /\ selfRef[1]
    /\ not_dropped_services = <<>>

\* ---- register_services next to the other callers ----

\* the callers of the three register functions running side by side, one of
\* them in register_services, and the owners of the services
RegNext ==
    \/ \E k \in BOOLEAN, c \in BOOLEAN : register_new_service(k, c)
    \/ \E s \in DOMAIN ext, k \in BOOLEAN : register_service(s, k)
    \/ register_actor
    \/ /\ batch = <<>>
       /\ \E b \in Slices, c \in BOOLEAN : register_services(b, c)
    \/ register_services_step
    \/ \E s \in DOMAIN ext : ExtDrop(s)

RegSpec == Init /\ [][RegNext]_vars

\* the elements of seq from position i on occur in `into` from position j
\* on, in their order
RECURSIVE OccursInOrder(_, _, _, _)
OccursInOrder(seq, i, into, j) ==
    IF i > Len(seq) THEN TRUE
    ELSE IF j > Len(into) THEN FALSE
    ELSE IF seq[i] = into[j] THEN OccursInOrder(seq, i + 1, into, j + 1)
    ELSE OccursInOrder(seq, i, into, j + 1)

\* every registration of services so far, in the order in which it was made
AllServices == weak_services \o services

\* C15: a step changes the services sequence only by appending one element
\* at its end, or by draining all of it into the call's weak handles, and
\* the actors sequence only by appending one element; no step appends to
\* both; an iteration of register_services appends the next element of its
\* slice, as register_service on that element would; so the elements of the
\* slice registered so far are in the registrations of services in the
\* slice's order, whatever other callers registered in between.
C15_RegistrationsKeptInOrder ==
    /\ [][\/ services' = services
          \/ /\ Len(services') = Len(services) + 1
             /\ IsPrefix(services, services')
             /\ actors' = actors
          \/ /\ pc = "drain"
             /\ services' = <<>>
             /\ weak_services' = services]_vars
    /\ [][\/ actors' = actors
          \/ /\ Len(actors') = Len(actors) + 1
             /\ IsPrefix(actors, actors')
             /\ services' = services]_vars
    /\ [][batch_idx' # batch_idx =>
            /\ batch_idx' = batch_idx + 1
            /\ services' = Append(services, batch[batch_idx'])]_vars
    /\ [](batch_idx <= Len(batch)
            /\ OccursInOrder(SubSeq(batch, 1, batch_idx), 1, AllServices, 1))

\* C15 witness: register_services has returned for a slice of two different
\* services, and another caller's registration went between the two.
C15_Witness ==
    /\ Len(batch) = 2
    /\ batch_idx = 2
    /\ batch[1] # batch[2]
    /\ Len(AllServices) = 3
    /\ AllServices[1] = batch[1]
    /\ AllServices[2] \notin Range(batch)
    /\ AllServices[3] = batch[2]

\* C21: the hooks the call invoked are those of the registry's entries at
\* fan-out, which are the first of the drained entries: an entry registered
\* later, during the wait, is not notified; the drain removes every entry of
\* the registry, the late ones too, and the scan lists a drained service
\* whose hook the call never invoked if and only if its strong count is
\* above zero; after the drain the call removes nothing from the registry,
\* notifies no one, and the list names drained services only.
C21_LateRegistrationDrainedNotNotified ==
    /\ [](pc \in {"wait", "stop", "drain"} =>
            IsPrefix(NotifiedOf("service"), services))
    /\ [](pc \in {"scan", "done"} =>
            IsPrefix(NotifiedOf("service"), weak_services))
    /\ [][(pc = "drain" /\ pc' = "scan") =>
            weak_services' = services /\ services' = <<>>]_vars
    /\ [][ScanStep =>
            /\ \A s \in Range(weak_services) :
                HookCalls(s) = {} =>
                    (Name(s) \in Range(not_dropped_services')
                        <=> StrongCount(s) > 0)
            /\ \A n \in Range(not_dropped_services') :
                \E s \in Range(weak_services) : n = Name(s)]_vars
    /\ [][(pc \in {"scan", "done"}) =>
            /\ IsPrefix(services, services')
            /\ notified' = notified
            /\ weak_services' = weak_services]_vars

\* C21 witness: the call has returned; a service registered during the wait
\* was drained and is listed, its owner holding it, without its hook having
\* been invoked, and a service registered after the drain is in the registry,
\* not notified and not listed.
C21_Witness ==
    /\ pc = "done"
    /\ notified = <<>>
    /\ Len(weak_services) = 1
    /\ Len(services) = 1
    /\ services[1] # weak_services[1]
    /\ not_dropped_services = <<Name(weak_services[1])>>
    /\ StrongCount(services[1]) > 0

====
